---- MODULE Spec2Model ----
(***************************************************************************)
(* insomniad: the suspend-decision loop of src/main.rs together with the   *)
(* kernel interfaces it talks to (power/wakeup_count, power/state,         *)
(* debug/wakeup_sources, CLOCK_MONOTONIC).                                 *)
(*                                                                         *)
(* All times and durations are in milliseconds, as in the code.  The       *)
(* kernel clock advances in steps of TickMS.  The kernel files are the     *)
(* environment: a wakeup event may be registered between any two steps of  *)
(* the daemon.                                                             *)
(***************************************************************************)
EXTENDS Integers, Sequences, FiniteSets, TLC

\* ------------------------------------------------------------- bounds
\* Resolution of the model clock, in ms.
TickMS == 500
\* Largest configured hysteresis, in clock steps.
MaxH == 2
\* Rows of the wakeup_sources table.
MaxSources == 2
\* Wakeup events the kernel registers in one behaviour.
MaxEvents == 1
\* Value the kernel's wakeup counter ends at; it starts MaxEvents below.
MaxCount == 10
\* A wakeup source may be stamped up to MaxSkew clock steps ahead of the
\* clock the daemon reads (the assert of apply_hysteresis is about this).
MaxSkew == 1

\* Longest list of suspend modes in power/state that selection is tried on.
MaxModes == 3
\* Rows of the tables that most_recent_event is tried on.
MaxRows == 2
\* Most tabs between two columns of the rows parse_wakeup_source is tried
\* on, one extra tab at one place aside.
MaxTabs == 2

\* The clock window: timestamps older than this are all "long ago".
MaxTime == (MaxH + 1) * TickMS

VARIABLES
    \* kernel
    clock,      \* CLOCK_MONOTONIC, ms
    kcount,     \* the kernel's wakeup counter
    sources,    \* the wakeup_sources table: rows in table order
    busy,       \* the kernel answers EBUSY to power-management writes
    wcIO,       \* reads and writes on the open wakeup_count handle
    wcOpen,     \* open file descriptions of power/wakeup_count
    kstates,    \* the suspend modes the kernel lists in power/state
    stateIO,    \* opens, reads, writes and closes of power/state
    layout,     \* how the kernel prints debug/wakeup_sources
    \* configuration (command line)
    timeout,    \* hysteresis, ms
    dry_run,
    request,    \* the suspend mode asked for (Option<String>)
    \* daemon
    pc,         \* position in main
    state,      \* PowerState.state: the selected mode
    state_file, \* PowerState.state_file (Option<File>)
    count,      \* main's `count`: the WakeupCount token
    event,      \* apply_hysteresis's `event`
    delay,      \* argument of the thread::sleep in progress
    waited,     \* time that sleep has blocked so far
    errno,      \* result of the last write of the current cycle
    trace,      \* calls of the current cycle, in order
    \* test_parse_wakeup_source
    line,       \* the line handed to parse_wakeup_source
    ws          \* what parse_wakeup_source did with it

\* The PowerState object and the pseudo-file behind it.
pvars == <<kstates, stateIO, request, state, state_file>>

\* The table's layout and the unit test of the row parser.
tvars == <<layout, line, ws>>

vars == <<clock, kcount, sources, busy, wcIO, wcOpen, timeout, dry_run,
          pc, count, event, delay, waited, errno, trace, pvars, tvars>>

\* Option<T> and a moved-out value: the empty sequence or one element.
None == <<>>
Some(x) == <<x>>
IsSome(o) == o # <<>>
Unwrap(o) == o[1]
NoToken == <<>>

Max(a, b) == IF a >= b THEN a ELSE b
Range(s) == {s[i] : i \in 1..Len(s)}
Last(s) == s[Len(s)]

\* ------------------------------------------------ text of the counter
DigitChar == <<"0", "1", "2", "3", "4", "5", "6", "7", "8", "9">>
IsDigit(c) == \E d \in 1..10 : DigitChar[d] = c
DigitVal(c) == CHOOSE d \in 0..9 : DigitChar[d + 1] = c

RECURSIVE Digits(_)
Digits(n) == IF n < 10 THEN <<DigitChar[n + 1]>>
             ELSE Digits(n \div 10) \o <<DigitChar[(n % 10) + 1]>>

\* What a read of power/wakeup_count returns: the counter as "%u\n".
WakeupCountShow(n) == Digits(n) \o <<"\n">>

RECURSIVE ScanUInt(_, _, _)
ScanUInt(text, i, acc) ==
    IF i <= Len(text) /\ IsDigit(text[i])
    THEN ScanUInt(text, i + 1, acc * 10 + DigitVal(text[i]))
    ELSE IF i = 1 THEN -1 ELSE acc

\* How the kernel reads a written counter: the leading digits ("%u").
ParseUInt(text) == ScanUInt(text, 1, 0)

\* ------------------------------------------------------ text (str)
\* A text is a string; its characters are its substrings of length one.
CharAt(text, i) == SubSeq(text, i, i)

\* The positions in `text` of the characters of `seps`, in order.
SepPositions(text, seps) ==
    SelectSeq([i \in 1..Len(text) |-> i], LAMBDA i : CharAt(text, i) \in seps)

\* str::split: the pieces of `text` between the characters of `seps`, the
\* empty ones included.
Split(text, seps) ==
    LET at == SepPositions(text, seps)
    IN  [k \in 1..(Len(at) + 1) |->
            SubSeq(text, IF k = 1 THEN 1 ELSE at[k - 1] + 1,
                         IF k > Len(at) THEN Len(text) ELSE at[k] - 1)]

Whitespace == {" ", "\t", "\n"}

\* str::trim_right: `text` without its trailing whitespace.
RECURSIVE TrimRight(_)
TrimRight(text) ==
    IF Len(text) > 0 /\ CharAt(text, Len(text)) \in Whitespace
    THEN TrimRight(SubSeq(text, 1, Len(text) - 1))
    ELSE text

\* BufRead::lines: the lines of `text` without their line ends; a line end
\* at the very end starts no further line.
Lines(text) ==
    LET pieces == Split(text, {"\n"})
    IN  IF pieces[Len(pieces)] = "" THEN SubSeq(pieces, 1, Len(pieces) - 1)
        ELSE pieces

\* The pieces of `words` written one after the other, `sep` in between.
RECURSIVE Join(_, _)
Join(words, sep) ==
    IF words = <<>> THEN ""
    ELSE IF Len(words) = 1 THEN words[1]
    ELSE words[1] \o sep \o Join(Tail(words), sep)

\* --------------------------------------------------------- time.rs
\* MonotonicTimeMS::now(): the monotonic clock at millisecond resolution.
MonotonicNow == clock

\* impl Sub for MonotonicTimeMS: Duration::from_millis(self.0 - other.0).
\* The only caller asserts self >= other first.
MonotonicSub(a, b) == a - b

\* Duration::from_secs
FromSecs(s) == s * 1000

\* ------------------------------------------------- wakeup_sources.rs
\* A decimal number as text.
RECURSIVE ShowUInt(_)
ShowUInt(n) == IF n < 10 THEN DigitChar[n + 1]
               ELSE ShowUInt(n \div 10) \o DigitChar[(n % 10) + 1]

SourceName(i) == "ws" \o ShowUInt(i)

\* struct WakeupSource, from its name and its nine numbers in column order.
SourceOf(name, v) ==
    [name |-> name,
     active_count |-> v[1], event_count |-> v[2], wakeup_count |-> v[3],
     expire_count |-> v[4], active_since |-> v[5], total_time |-> v[6],
     max_time |-> v[7], last_change |-> v[8], prevent_suspend_time |-> v[9]]

\* The numbers of a WakeupSource in column order.
SourceValues(r) ==
    <<r.active_count, r.event_count, r.wakeup_count, r.expire_count,
      r.active_since, r.total_time, r.max_time, r.last_change,
      r.prevent_suspend_time>>

\* A wakeup source that has only ever recorded the time of its last change.
WakeupSource(name, last_change) ==
    SourceOf(name, <<0, 0, 0, 0, 0, 0, 0, last_change, 0>>)

\* What a function did: it returned v, or it panicked with a message.
Returned(v) == [panic |-> "", value |-> <<v>>]
Panicked(msg) == [panic |-> msg, value |-> <<>>]
HasPanicked(r) == r.panic # ""

\* str::parse::<u64>: the number written by `text`, all of it decimal
\* digits; -1 stands for the ParseIntError.
RECURSIVE ParseDigits(_, _, _)
ParseDigits(text, i, acc) ==
    IF i > Len(text) THEN acc
    ELSE IF IsDigit(CharAt(text, i))
         THEN ParseDigits(text, i + 1, acc * 10 + DigitVal(CharAt(text, i)))
         ELSE -1

ParseU64(text) == IF text = "" THEN -1 ELSE ParseDigits(text, 1, 0)

\* NonEmpty letting every field through.
NonEmpty_Any(field) == TRUE

\* parse_wakeup_source: filter(|field| field.len() > 0)
NonEmpty(field) == Len(field) > 0

\* str::split_whitespace: the maximal runs of non-whitespace characters.
SplitWhitespace(text) == SelectSeq(Split(text, Whitespace), LAMBDA w : w # "")

\* The field! macro, field after field: the k-th field is the next
\* non-empty piece, trimmed on the right and parsed (the name as a String,
\* which never fails, the others as numbers); a panic when there is no
\* next piece or when it does not parse.
RECURSIVE ParseFields(_, _, _)
ParseFields(fields, k, acc) ==
    IF k > 10 THEN Returned(SourceOf(acc[1], Tail(acc)))
    ELSE IF k > Len(fields) THEN Panicked("Missing field")
    ELSE LET text == TrimRight(fields[k])
             number == ParseU64(text)
         IN  IF k = 1 THEN ParseFields(fields, 2, <<text>>)
             ELSE IF number < 0 THEN Panicked("Parsing field failed")
             ELSE ParseFields(fields, k + 1, Append(acc, number))

\* parse_wakeup_source: the fields of the line are its non-empty pieces
\* between tabs.
parse_wakeup_source(text) ==
    ParseFields(SelectSeq(Split(text, {"\t"}), NonEmpty), 1, <<>>)

\* KeepsLater keeping the earlier of two rows with the same key.
KeepsLater_Strict(key, best) == key > best

\* Iterator::max_by_key: of two elements with the same key the later one
\* is kept.
KeepsLater(key, best) == key >= best

\* Iterator::max_by_key over rows: of several maximal rows the last one is
\* returned; None when there is no row.
RECURSIVE MaxByKey(_, _, _)
MaxByKey(rows, i, best) ==
    IF i > Len(rows) THEN best
    ELSE MaxByKey(rows, i + 1,
                  IF ~IsSome(best)
                     \/ KeepsLater(rows[i].last_change, Unwrap(best).last_change)
                  THEN Some(rows[i]) ELSE best)

\* most_recent_event: const HEADER
HEADER == "name\t\tactive_count\tevent_count\twakeup_count\texpire_count\tactive_since\ttotal_time\tmax_time\tlast_change\tprevent_suspend_time"

\* HeaderOk taking any first line for the header.
HeaderOk_Any(header) == TRUE

\* most_recent_event: assert_eq!(header, HEADER)
HeaderOk(header) == header = HEADER

\* lines.map(parse_wakeup_source).max_by_key(last_change) from line i on:
\* the lines are parsed one after the other, `best` being the most recent
\* so far; a line that does not parse panics.
RECURSIVE MapMaxByKey(_, _, _)
MapMaxByKey(lines, i, best) ==
    IF i > Len(lines) THEN Returned(best)
    ELSE LET r == parse_wakeup_source(lines[i])
         IN  IF HasPanicked(r) THEN r
             ELSE MapMaxByKey(lines, i + 1,
                     IF ~IsSome(best)
                        \/ KeepsLater(Unwrap(r.value).last_change,
                                      Unwrap(best).last_change)
                     THEN r.value ELSE best)

\* most_recent_event: the panics about the header.
HeaderPanics == {"No header", "assert_eq header"}

\* most_recent_event over the text `file`: the first line must be the
\* header; the most recent of the rows after it is returned.
most_recent_event(file) ==
    LET lines == Lines(file)
    IN  IF lines = <<>> THEN Panicked("No header")
        ELSE IF ~HeaderOk(lines[1]) THEN Panicked("assert_eq header")
        ELSE MapMaxByKey(lines, 2, None)

\* ------------------------------------------------ kernel interfaces
\* `n` times the text `t`.
RECURSIVE Repeat(_, _)
Repeat(t, n) == IF n <= 0 THEN "" ELSE t \o Repeat(t, n - 1)

\* printf's "%-*s": `text` padded with spaces on the right to `width`.
PadRight(text, width) == text \o Repeat(" ", width - Len(text))

\* The layout the kernel prints debug/wakeup_sources in: the header, then
\* per source "%-12s\t%lu\t\t%lu\t\t%lu\t\t%lu\t\t%lld\t\t%lld\t\t%lld\t\t%lld\t\t%lld\n".
KernelLayout ==
    [header |-> <<HEADER>>,   \* the lines ahead of the rows
     lead |-> 0,              \* tabs ahead of the name
     width |-> 12,            \* the name is padded to this width
     tabs |-> <<1, 2, 2, 2, 2, 2, 2, 2, 2>>,  \* tabs ahead of each number
     columns |-> 9,           \* numbers printed per row
     suffix |-> "",           \* text printed after each number
     trail |-> 0]             \* tabs after the last number

RECURSIVE RowNumbers(_, _, _)
RowNumbers(lay, v, k) ==
    IF k > lay.columns THEN ""
    ELSE Repeat("\t", lay.tabs[k]) \o ShowUInt(v[k]) \o lay.suffix
         \o RowNumbers(lay, v, k + 1)

\* One row of the table, without its line end.
RowShow(lay, r) ==
    Repeat("\t", lay.lead) \o PadRight(r.name, lay.width)
    \o RowNumbers(lay, SourceValues(r), 1) \o Repeat("\t", lay.trail)

RECURSIVE RowsShow(_, _, _)
RowsShow(lay, rows, i) ==
    IF i > Len(rows) THEN ""
    ELSE RowShow(lay, rows[i]) \o "\n" \o RowsShow(lay, rows, i + 1)

\* What a read of debug/wakeup_sources returns.
WakeupSourcesShow(lay, rows) ==
    Join(lay.header, "\n") \o (IF lay.header = <<>> THEN "" ELSE "\n")
    \o RowsShow(lay, rows, 1)

\* The kernel's answers to a write of `text` to power/wakeup_count: EBUSY
\* while autosleep holds it, EINVAL when the counter is no longer the one
\* written, accepted otherwise; EIO stands for any other error.
WakeupCountStore(text) ==
    (IF busy THEN {"EBUSY"}
     ELSE IF ParseUInt(text) = kcount THEN {"OK"} ELSE {"EINVAL"}) \cup {"EIO"}

\* What a read of power/state returns: the supported modes, a space in
\* between and a line end after the last; nothing when there is none.
PowerStateShow(modes) ==
    IF modes = <<>> THEN "" ELSE Join(modes, " ") \o "\n"

\* The kernel's answers to a write of the mode to power/state.
PowerStateStore ==
    (IF busy THEN {"EBUSY"} ELSE {"OK"}) \cup {"EIO"}

\* An open file description, by the access it was opened with.
\* File::open: read-only.
OpenReadOnly == [read |-> TRUE, write |-> FALSE]
\* OpenOptions::new().read(true).write(true).open
OpenReadWrite == [read |-> TRUE, write |-> TRUE]

\* write(2) on `file`: EBADF unless it was opened for writing; otherwise
\* one of the answers of the pseudo-file behind it.
FileWrite(file, answers) == IF file.write THEN answers ELSE {"EBADF"}

\* The window of the clock slides once the clock reaches MaxTime: every
\* timestamp moves back by d, and one older than the window stays at 0.
Slide(t, d) == Max(0, t - d)
SlideRow(r, d) == [r EXCEPT !.last_change = Slide(r.last_change, d)]
SlideRows(rows, d) == [i \in 1..Len(rows) |-> SlideRow(rows[i], d)]

\* A thread::sleep(delay) in progress is in one of these positions.
Sleeping == pc \in {"wait", "backoff", "postwait"}

\* CLOCK_MONOTONIC advances by one step.
Tick ==
    /\ IF clock + TickMS <= MaxTime
       THEN /\ clock' = clock + TickMS
            /\ UNCHANGED <<sources, event>>
       ELSE /\ clock' = clock
            /\ sources' = SlideRows(sources, TickMS)
            /\ event' = SlideRows(event, TickMS)
    /\ waited' = IF Sleeping /\ waited < delay THEN waited + TickMS ELSE waited
    /\ UNCHANGED <<kcount, busy, wcIO, wcOpen, timeout, dry_run, pc, count,
                   delay, errno, trace, pvars, tvars>>

\* The kernel registers a wakeup event of source i: the counter changes
\* and the source's last_change is stamped.
WakeupEvent ==
    /\ kcount < MaxCount
    /\ \E i \in 1..Len(sources), skew \in 0..MaxSkew :
          sources' = [sources EXCEPT ![i].last_change = clock + skew * TickMS]
    /\ kcount' = kcount + 1
    /\ UNCHANGED <<clock, busy, wcIO, wcOpen, timeout, dry_run, pc, count,
                   event, delay, waited, errno, trace, pvars, tvars>>

\* Something starts or stops blocking suspend (autosleep, a busy device).
SetBusy ==
    /\ busy' = ~busy
    /\ UNCHANGED <<clock, kcount, sources, wcIO, wcOpen, timeout, dry_run,
                   pc, count, event, delay, waited, errno, trace, pvars, tvars>>

\* ----------------------------------------------------------- main.rs
\* PutResult taking a stale write for a written one.
PutResult_StaleIsTrue(e) ==
    CASE e = "OK" -> "true"
      [] e = "EINVAL" -> "true"
      [] e = "EBUSY" -> "false"
      [] OTHER -> "panic"

\* PutResult taking a busy kernel for a fatal error.
PutResult_BusyIsFatal(e) ==
    CASE e = "OK" -> "true"
      [] e = "EINVAL" -> "false"
      [] OTHER -> "panic"

\* WakeupCount::put's result for the write's outcome: true when written,
\* false on EINVAL and EBUSY, a panic on any other error.
PutResult(e) ==
    CASE e = "OK" -> "true"
      [] e = "EINVAL" -> "false"
      [] e = "EBUSY" -> "false"
      [] OTHER -> "panic"

\* PutBytes writing the count without its line end.
PutBytes_Trimmed(token) == SubSeq(token.count, 1, Len(token.count) - 1)

\* The bytes WakeupCount::put writes: self.count.as_bytes().
PutBytes(token) == token.count

\* PowerState::sleep's result for the write's outcome.
SleepResult(e) ==
    CASE e = "OK" -> "true"
      [] e = "EBUSY" -> "false"
      [] OTHER -> "panic"

\* RestartAfterPut ignoring put's result.
RestartAfterPut_Never(r) == FALSE

\* RestartAfterPut restarting whatever put returned.
RestartAfterPut_Always(r) == TRUE

\* main: `if !count.put() { continue; }`
RestartAfterPut(r) == r = "false"

\* main: `if !state.sleep() { sleep(1 s); continue; }`
BackoffAfterSleep(r) == r = "false"

\* main: the pause after a refused suspend.
BackoffDuration == FromSecs(1)

\* PostResumeDuration taking the backoff pause for the hysteresis.
PostResumeDuration_Backoff == BackoffDuration

\* main: the wait after a resume: sleep(timeout).
PostResumeDuration == timeout

\* AssertNowGeLast left out.
AssertNowGeLast_Absent(now, last) == TRUE

\* apply_hysteresis: assert!(now >= last)
AssertNowGeLast(now, last) == now >= last

\* NeedsDelay with the comparison turned around.
NeedsDelay_Reversed(delta, hysteresis) == hysteresis < delta

\* apply_hysteresis: `if delta < hysteresis`
NeedsDelay(delta, hysteresis) == delta < hysteresis

\* HysteresisDelay not taking off the time already elapsed.
HysteresisDelay_Whole(hysteresis, delta) == hysteresis

\* apply_hysteresis: `let delay = hysteresis - delta`
HysteresisDelay(hysteresis, delta) == hysteresis - delta

\* LoopTop with apply_hysteresis ahead of WakeupCount::get.
LoopTop_QueryFirst == "query"

\* main: the first statement of `loop { ... }`, where `continue` leads.
LoopTop == "get"

Panic(msg) ==
    /\ pc' = "fatal"
    /\ trace' = Append(trace, msg)

\* Iterator::find: the first of `words` equal to `word`.
Find(words, word) ==
    IF \E i \in 1..Len(words) : words[i] = word THEN Some(word) ELSE None

\* SelectState with freeze preferred to mem.
SelectState_FreezeFirst(states, req) ==
    LET words == SplitWhitespace(states)
    IN  IF IsSome(req)
        THEN Find(words, Unwrap(req))
        ELSE IF IsSome(Find(words, "freeze")) THEN Some("freeze")
        ELSE IF IsSome(Find(words, "mem")) THEN Some("mem")
        ELSE IF Len(words) > 0 THEN Some(words[1])
        ELSE None

\* PowerState::new: the mode chosen from the text `states` read from
\* power/state and the requested mode; None stands for the panic.
SelectState(states, req) ==
    LET words == SplitWhitespace(states)
    IN  IF IsSome(req)
        THEN IF \E i \in 1..Len(words) : words[i] = Unwrap(req)
             THEN Some(Unwrap(req))
             ELSE None
        ELSE IF IsSome(Find(words, "mem")) THEN Find(words, "mem")
        ELSE IF IsSome(Find(words, "freeze")) THEN Find(words, "freeze")
        ELSE IF Len(words) > 0 THEN Some(words[1])
        ELSE None

\* StateFile keeping the handle in a dry run as well.
StateFile_Always(dry, file) == Some(file)

\* PowerState::new: `state_file: if !dry_run { Some(file) } else { None }`
StateFile(dry, file) == IF ~dry THEN Some(file) ELSE None

\* DryRunResult reporting a refused suspend.
DryRunResult_False == "false"

\* PowerState::sleep without a file: "Would have attempted sleep", true.
DryRunResult == "true"

\* A put that returns with its handle still open.
HandlesAfterPut_Leak(n) == n

\* The handle of WakeupCount is dropped when put() is left.
HandlesAfterPut(n) == n - 1

\* let mut state = PowerState::new(dry_run, state);
New ==
    /\ pc = "new"
    /\ \/ LET file == OpenReadOnly
              states == PowerStateShow(kstates)
              sel == SelectState(states, request)
              opened == <<[op |-> "open", file |-> file], [op |-> "read"]>>
          IN  IF IsSome(sel)
              THEN /\ state' = Unwrap(sel)
                   /\ state_file' = StateFile(dry_run, file)
                   /\ stateIO' = IF IsSome(state_file') THEN opened
                                 ELSE Append(opened, [op |-> "close"])
                   /\ pc' = LoopTop
                   /\ trace' = <<>>
              ELSE /\ stateIO' = Append(opened, [op |-> "close"])
                   /\ Panic("panic_state")
                   /\ UNCHANGED <<state, state_file>>
       \/ /\ Panic("panic_io")
          /\ UNCHANGED <<state, state_file, stateIO>>
    /\ request' = None
    /\ UNCHANGED <<clock, kcount, sources, busy, wcIO, wcOpen, kstates,
                   timeout, dry_run, count, event, delay, waited, errno,
                   tvars>>

\* let count = WakeupCount::get();
Get ==
    /\ pc = "get"
    /\ \/ /\ count' = Some([file |-> OpenReadWrite,
                            count |-> WakeupCountShow(kcount)])
          /\ wcIO' = <<[op |-> "read", text |-> WakeupCountShow(kcount)]>>
          /\ wcOpen' = wcOpen + 1
          /\ pc' = "query"
          /\ trace' = <<"get">>
       \/ /\ pc' = "fatal"
          /\ trace' = <<"panic_io">>
          /\ UNCHANGED <<count, wcIO, wcOpen>>
    /\ errno' = "none"
    /\ UNCHANGED <<clock, kcount, sources, busy, timeout, dry_run, event,
                   delay, waited, pvars, tvars>>

\* apply_hysteresis: let event = wakeup_sources::get_most_recent_event();
\* which opens the table (unwrap) and then reads and parses it.
Query ==
    /\ pc = "query"
    /\ \/ /\ Panic("panic_io")
          /\ UNCHANGED event
       \/ LET r == most_recent_event(WakeupSourcesShow(layout, sources))
          IN  IF HasPanicked(r)
              THEN /\ Panic(IF r.panic \in HeaderPanics THEN "panic_header"
                            ELSE "panic_row")
                   /\ UNCHANGED event
              ELSE /\ event' = Unwrap(r.value)
                   /\ IF IsSome(event')
                      THEN /\ pc' = "now"
                           /\ trace' = Append(trace, "query_some")
                      ELSE /\ pc' = "put"
                           /\ trace' = Append(trace, "query_none")
    /\ UNCHANGED <<clock, kcount, sources, busy, wcIO, wcOpen, timeout,
                   dry_run, count, delay, waited, errno, pvars, tvars>>

\* apply_hysteresis: read the clock, assert, compute the delay.
Now ==
    /\ pc = "now"
    /\ \/ LET last == Unwrap(event).last_change
              now == MonotonicNow
          IN  IF ~AssertNowGeLast(now, last)
              THEN /\ Panic("panic_assert")
                   /\ UNCHANGED <<delay, waited>>
              ELSE LET delta == MonotonicSub(now, last)
                   IN  IF NeedsDelay(delta, timeout)
                       THEN /\ delay' = HysteresisDelay(timeout, delta)
                            /\ waited' = 0
                            /\ pc' = "wait"
                            /\ trace' = Append(Append(trace, "now"), "wait")
                       ELSE /\ pc' = "put"
                            /\ trace' = Append(trace, "now")
                            /\ UNCHANGED <<delay, waited>>
       \/ /\ Panic("panic_io")
          /\ UNCHANGED <<delay, waited>>
    /\ event' = None
    /\ UNCHANGED <<clock, kcount, sources, busy, wcIO, wcOpen, timeout,
                   dry_run, count, errno, pvars, tvars>>

\* if !count.put() { continue; }
Put ==
    /\ pc = "put"
    /\ \E e \in FileWrite(Unwrap(count).file,
                          WakeupCountStore(PutBytes(Unwrap(count)))) :
          LET r == PutResult(e)
          IN  /\ errno' = e
              /\ wcIO' = Append(wcIO, [op |-> "write",
                                       text |-> PutBytes(Unwrap(count))])
              /\ IF r = "panic" THEN Panic("panic_io")
                 ELSE /\ trace' = Append(trace, IF r = "true" THEN "put_true"
                                                ELSE "put_false")
                      /\ pc' = IF RestartAfterPut(r) THEN LoopTop ELSE "sleep"
    /\ count' = NoToken
    /\ wcOpen' = HandlesAfterPut(wcOpen)
    /\ UNCHANGED <<clock, kcount, sources, busy, timeout, dry_run, event,
                   delay, waited, pvars, tvars>>

\* The bytes PowerState::sleep writes: self.state.as_bytes().
SleepBytes == state

\* main after state.sleep() returned r, `called` being the calls so far:
\* if !r { sleep(1 s); continue; }  sleep(timeout);
AfterSleep(r, called) ==
    IF r = "panic"
    THEN /\ pc' = "fatal"
         /\ trace' = Append(called, "panic_io")
         /\ UNCHANGED <<delay, waited>>
    ELSE IF BackoffAfterSleep(r)
    THEN /\ pc' = "backoff"
         /\ trace' = Append(Append(called, "sleep_" \o r), "backoff")
         /\ delay' = BackoffDuration
         /\ waited' = 0
    ELSE /\ pc' = "postwait"
         /\ trace' = Append(Append(called, "sleep_" \o r), "postwait")
         /\ delay' = PostResumeDuration
         /\ waited' = 0

\* state.sleep() and what main does with its result.
Sleep ==
    /\ pc = "sleep"
    /\ IF IsSome(state_file)
       THEN \E e \in FileWrite(Unwrap(state_file), PowerStateStore) :
               /\ errno' = e
               /\ stateIO' = Append(stateIO, [op |-> "write",
                                              text |-> SleepBytes])
               /\ AfterSleep(SleepResult(e), Append(trace, "write"))
       ELSE /\ AfterSleep(DryRunResult, trace)
            /\ UNCHANGED <<errno, stateIO>>
    /\ UNCHANGED <<clock, kcount, sources, busy, wcIO, wcOpen, kstates,
                   timeout, dry_run, request, state, state_file, count,
                   event, tvars>>

\* std::thread::sleep returns: the hysteresis wait of apply_hysteresis goes
\* on to put(); the pause after a refused suspend and the wait after a
\* resume end the iteration of the loop.
ThreadSleepReturns ==
    /\ Sleeping
    /\ waited >= delay
    /\ pc' = IF pc = "wait" THEN "put" ELSE LoopTop
    /\ delay' = 0
    /\ waited' = 0
    /\ UNCHANGED <<clock, kcount, sources, busy, wcIO, wcOpen, timeout,
                   dry_run, count, event, errno, trace, pvars, tvars>>

Daemon == New \/ Get \/ Query \/ Now \/ Put \/ Sleep \/ ThreadSleepReturns

\* The kernel when the daemon starts: `rows` wakeup sources, none active
\* yet, and `events` wakeup events still to come.
InitKernel(rows, events) ==
    /\ clock = 0
    /\ kcount = MaxCount - events
    /\ \E n \in 0..rows :
          sources = [i \in 1..n |-> WakeupSource(SourceName(i), 0)]
    /\ busy = FALSE
    /\ wcIO = <<>>
    /\ wcOpen = 0
    /\ stateIO = <<>>
    /\ layout = KernelLayout

\* main up to PowerState::new: the command line is parsed, no file is open.
InitDaemon ==
    /\ timeout \in {h * TickMS : h \in 0..MaxH}
    /\ dry_run \in BOOLEAN
    /\ pc = "new"
    /\ state = ""
    /\ state_file = None
    /\ count = NoToken
    /\ event = None
    /\ delay = 0
    /\ waited = 0
    /\ errno = "none"
    /\ trace = <<>>

\* The machine of the loop's runs lists three modes; the command line asks
\* for none or for one that is not listed.
InitState ==
    /\ kstates = <<"freeze", "mem", "disk">>
    /\ request \in {None, Some("standby")}

\* The unit test of the row parser is not part of the daemon.
NoTest ==
    /\ line = ""
    /\ ws = Panicked("not called")

Init == InitKernel(MaxSources, MaxEvents) /\ InitDaemon /\ InitState /\ NoTest

\* For liveness: a kernel with one wakeup event still to come.
LiveInit ==
    /\ InitKernel(MaxSources, 1) /\ InitDaemon
    /\ kstates = <<"freeze", "mem", "disk">>
    /\ request = None
    /\ NoTest

\* The suspend modes a kernel may list.
Modes == {"mem", "freeze", "disk", "standby"}

\* The lists of at most n modes, each mode at most once.
ModeLists(n) ==
    {l \in UNION {[1..k -> Modes] : k \in 0..n} :
        \A i, j \in 1..Len(l) : i < j => l[i] # l[j]}

\* PowerState::new on every machine and every command line.
SelectInit ==
    /\ InitKernel(0, 0) /\ InitDaemon
    /\ kstates \in ModeLists(MaxModes)
    /\ request \in {None} \cup {Some(m) : m \in Modes}
    /\ NoTest

SelectSpec == SelectInit /\ [][New]_vars

\* ---------------------------------------- most_recent_event on tables
\* The header of a kernel that does not print prevent_suspend_time.
OldHeader == SubSeq(HEADER, 1, Len(HEADER) - Len("\tprevent_suspend_time"))

\* Layouts a kernel may print the table in: the header as the daemon
\* expects it, another one or none; all nine numbers per row or only
\* eight; the times as plain numbers or with their unit.
TableLayouts ==
    {[KernelLayout EXCEPT !.header = h, !.columns = c, !.suffix = x,
                          !.width = w] :
        h \in {<<HEADER>>, <<OldHeader>>, <<>>}, c \in {9, 8},
        x \in {"", "ms"}, w \in {12, 0}}

\* The tables of at most n rows, each row with nine different numbers and
\* its last_change at one of the clock's steps.
Tables(n) ==
    UNION {{[i \in 1..k |->
               SourceOf(SourceName(i), <<i, 12, 13, 14, 15, 16, 17, t[i], 19>>)] :
             t \in [1..k -> {j * TickMS : j \in 0..MaxH}]} : k \in 0..n}

\* The daemon started on a machine with any of the tables in any of the
\* layouts.
TableInit ==
    /\ clock = MaxTime
    /\ kcount = MaxCount
    /\ sources \in Tables(MaxRows)
    /\ busy = FALSE
    /\ wcIO = <<>>
    /\ wcOpen = 0
    /\ stateIO = <<>>
    /\ layout \in TableLayouts
    /\ InitDaemon /\ InitState /\ NoTest

\* The daemon up to and including its first query of the table.
TableSpec == TableInit /\ [][New \/ Get \/ Query]_vars

\* ------------------------------------ parse_wakeup_source on lines
\* test_parse_wakeup_source: let ws = parse_wakeup_source(line);
ParseLine ==
    /\ pc = "test"
    /\ ws' = parse_wakeup_source(line)
    /\ pc' = "done"
    /\ UNCHANGED <<clock, kcount, sources, busy, wcIO, wcOpen, timeout,
                   dry_run, count, event, delay, waited, errno, trace, pvars,
                   layout, line>>

\* Tabs ahead of the nine numbers: b everywhere and one more at one place.
TabPatterns ==
    {[k \in 1..9 |-> IF k = x THEN b + 1 ELSE b] :
        b \in 1..MaxTabs, x \in 0..9}

\* Layouts of a well-formed row: tabs doubled anywhere, the name padded or
\* not.
RowLayouts ==
    {[KernelLayout EXCEPT !.lead = l, !.width = w, !.tabs = t, !.trail = r] :
        l \in 0..1, w \in {0, 12}, t \in TabPatterns, r \in 0..1}

\* Rows that tell the nine columns apart: one column at 500 and the others
\* at 0, as in the unit test, or every column with a number of its own.
TestRows ==
    {SourceOf("source", [j \in 1..9 |-> IF j = k THEN 500 ELSE 0]) :
        k \in 1..9}
    \cup {SourceOf("source", <<11, 12, 13, 14, 15, 16, 17, 18, 19>>)}

\* The unit test on every such row in every such layout, with and without
\* the line end.
LineInit ==
    /\ clock = 0
    /\ kcount = MaxCount
    /\ sources \in {<<r>> : r \in TestRows}
    /\ busy = FALSE
    /\ wcIO = <<>>
    /\ wcOpen = 0
    /\ stateIO = <<>>
    /\ layout \in RowLayouts
    /\ kstates = <<>>
    /\ request = None
    /\ timeout = 0
    /\ dry_run = TRUE
    /\ pc = "test"
    /\ state = ""
    /\ state_file = None
    /\ count = NoToken
    /\ event = None
    /\ delay = 0
    /\ waited = 0
    /\ errno = "none"
    /\ trace = <<>>
    /\ \E eol \in {"", "\n"} : line = RowShow(layout, sources[1]) \o eol
    /\ ws = Panicked("not called")

LineSpec == LineInit /\ [][ParseLine]_vars

Next == Tick \/ WakeupEvent \/ SetBusy \/ Daemon

Spec == Init /\ [][Next]_vars

\* The scheduler runs the daemon, the clock advances, and every blocking
\* call returns.
LiveSpec == LiveInit /\ [][Next]_vars /\ WF_vars(Tick) /\ WF_vars(Daemon)

\* ================================================================ claims
Called(step) == step \in Range(trace)

\* The rows' largest last_change: the time of the most recent wakeup event.
LastWakeup == Unwrap(MaxByKey(sources, 1, None)).last_change

\* The counter the token on the open handle was read at.
TokenCount == ParseUInt(wcIO[1].text)

\* ---------------------------------------------------------------- C1
\* C1: sleep() is invoked only if the commit (put) of the token of the same
\* cycle's begin (get) returned true; when the commit returns false no
\* suspend-state write happens in that cycle and the daemon is back at get.
C1_SleepOnlyAfterCommit ==
    /\ [](pc = "sleep" =>
            /\ Last(trace) = "put_true"
            /\ errno = "OK"
            /\ Len(wcIO) = 2 /\ wcIO[2].op = "write")
    /\ [](Called("write") \/ Called("sleep_true") \/ Called("sleep_false")
            => Called("put_true") /\ ~Called("put_false"))
    /\ [](Called("put_false") =>
            /\ Last(trace) = "put_false"
            /\ pc = "get"
            /\ count = NoToken)
    /\ [][pc' = "sleep" => pc \in {"put", "sleep"}]_vars

C1_Witness ==
    /\ ~dry_run
    /\ Called("put_true") /\ Called("write")
    /\ trace[Len(trace) - 1] = "write"
    /\ Len(wcIO) = 2 /\ wcIO[2].op = "write"

\* ---------------------------------------------------------------- C2
\* The counter has changed since get() read it, and put() is next.
C2_Stale == pc = "put" /\ TokenCount # kcount

\* C2: when the kernel's counter is no longer the one get() read at the
\* time put() writes, put() returns false (unless the write fails with an
\* unrelated error, which is fatal), sleep() is not reached with that
\* token, and the loop restarts: get() again, then the hysteresis.

C2_StaleCommitRestarts ==
    /\ [][C2_Stale /\ pc' # pc =>
            /\ pc' # "sleep"
            /\ count' = NoToken
            /\ ~Called("write")'
            /\ errno' \in {"EINVAL", "EBUSY", "EIO"}
            /\ errno' # "EIO" => pc' = "get" /\ Last(trace') = "put_false"
            /\ errno' = "EIO" => pc' = "fatal"]_vars
    /\ [][pc = "get" /\ pc' # pc =>
            \/ pc' = "fatal"
            \/ /\ pc' = "query"
               /\ trace' = <<"get">>
               /\ count' = Some([file |-> OpenReadWrite,
                                 count |-> WakeupCountShow(kcount)])]_vars
    /\ [][pc = "query" /\ pc' # pc => pc' \in {"now", "put", "fatal"}]_vars

C2_Witness ==
    /\ pc = "get"
    /\ errno = "EINVAL"
    /\ Last(trace) = "put_false"
    /\ Called("wait")

\* ---------------------------------------------------------------- C3
\* C3: the text put() writes is the text get() read on the same handle; the
\* token is not modified in between, and it is written at most once.
C3_WriteBackIdentical ==
    /\ Len(wcIO) <= 2
    /\ Len(wcIO) >= 1 => wcIO[1].op = "read"
    /\ Len(wcIO) = 2 => /\ wcIO[2].op = "write"
                        /\ wcIO[2].text = wcIO[1].text
                        /\ count = NoToken
    /\ IsSome(count) => /\ Len(wcIO) = 1
                        /\ Unwrap(count).count = wcIO[1].text

C3_Witness ==
    /\ Len(wcIO) = 2
    /\ wcIO[2].text = wcIO[1].text
    /\ Len(wcIO[2].text) = 3
    /\ errno = "OK"

C5_Order ==
    {<<"get", "query_some">>, <<"get", "query_none">>,
     <<"query_some", "now">>,
     <<"now", "wait">>, <<"now", "put_true">>, <<"now", "put_false">>,
     <<"wait", "put_true">>, <<"wait", "put_false">>,
     <<"query_none", "put_true">>, <<"query_none", "put_false">>,
     <<"put_true", "write">>, <<"put_true", "sleep_true">>,
     <<"write", "sleep_true">>, <<"write", "sleep_false">>,
     <<"sleep_true", "postwait">>, <<"sleep_false", "backoff">>}

C5_Panics ==
    {"panic_io", "panic_assert", "panic_state", "panic_header", "panic_row"}

\* The position the daemon is at after each call.
C5_PcAfter(step) ==
    CASE step = "get" -> {"query"}
      [] step = "query_some" -> {"now"}
      [] step = "query_none" -> {"put"}
      [] step = "now" -> {"put"}
      [] step = "wait" -> {"wait", "put"}
      [] step = "put_true" -> {"sleep"}
      [] step = "put_false" -> {"get"}
      [] step = "postwait" -> {"postwait", "get"}
      [] step = "backoff" -> {"backoff", "get"}
      [] step \in C5_Panics -> {"fatal"}
      [] OTHER -> {}

\* C5: in every cycle the calls occur in the order get, query, (clock read,
\* wait), put, sleep, (backoff | post-resume wait): the counter is read
\* before the table is queried and before any wait.
C5_FixedOrder ==
    /\ trace = <<>> => pc \in {"new", "get", "fatal"}
    /\ trace # <<>> =>
         /\ trace[1] \in {"get"} \cup C5_Panics
         /\ \A i \in 1..(Len(trace) - 1) :
               \/ <<trace[i], trace[i + 1]>> \in C5_Order
               \/ trace[i + 1] \in C5_Panics /\ i + 1 = Len(trace)
         /\ pc \in C5_PcAfter(Last(trace))
         /\ (Called("query_some") \/ Called("query_none") \/ Called("wait"))
               => trace[1] = "get" /\ Len(wcIO) >= 1 /\ wcIO[1].op = "read"

C5_Witness ==
    trace = <<"get", "query_some", "now", "wait", "put_true", "sleep_true",
              "postwait">>

\* ---------------------------------------------------------------- C6
\* C6: with the most recent event at T, the clock at T + D and hysteresis H,
\* apply_hysteresis sleeps H - D when D < H and does not sleep when
\* D >= H; without a wakeup source it neither reads the clock nor sleeps.
C6_HysteresisWait ==
    /\ [][pc = "now" /\ pc' \notin {"now", "fatal"} =>
            LET D == clock - Unwrap(event).last_change
            IN  /\ D >= 0
                /\ D < timeout => /\ pc' = "wait"
                                  /\ delay' = timeout - D
                                  /\ waited' = 0
                /\ D >= timeout => /\ pc' = "put"
                                   /\ ~Called("wait")'
                                   /\ UNCHANGED <<delay, waited>>]_vars
    /\ [][pc = "wait" /\ pc' # pc => pc' = "put" /\ waited >= delay]_vars
    /\ [](Called("query_none") => ~Called("now") /\ ~Called("wait"))
    /\ [][pc = "query" /\ sources = <<>> /\ pc' \notin {"query", "fatal"}
            => pc' = "put"]_vars

C6_Witness ==
    /\ pc = "wait"
    /\ delay > 0
    /\ delay < timeout
    /\ waited >= delay

\* ---------------------------------------------------------------- C7
\* C7: when the most recent event's last_change is later than the clock
\* read by apply_hysteresis, the daemon terminates at the assert, and no
\* wait, commit write or suspend write follows.
C7_FutureTimestampFatal ==
    /\ [][pc = "now" /\ Unwrap(event).last_change > clock /\ pc' # pc =>
            /\ pc' = "fatal"
            /\ Last(trace') \in C5_Panics
            /\ UNCHANGED <<delay, waited, wcIO, errno>>]_vars
    /\ [][pc = "fatal" =>
            /\ pc' = "fatal"
            /\ UNCHANGED <<trace, wcIO, errno, delay, count>>]_vars
    /\ [](Called("panic_assert") =>
            /\ pc = "fatal"
            /\ ~Called("wait") /\ ~Called("put_true") /\ ~Called("put_false")
            /\ ~Called("write")
            /\ Len(wcIO) = 1)

C7_Witness ==
    /\ pc = "fatal"
    /\ Last(trace) = "panic_assert"

C9_PostResumeWait ==
    /\ [](pc = "postwait" =>
            /\ Len(trace) >= 2
            /\ Last(trace) = "postwait"
            /\ trace[Len(trace) - 1] = "sleep_true"
            /\ delay = timeout)
    /\ [](Called("postwait") <=> Called("sleep_true"))
    /\ [][pc = "sleep" /\ pc' # pc =>
            (pc' = "postwait" /\ waited' = 0) <=> (dry_run \/ errno' = "OK")]_vars
    /\ [][pc = "postwait" /\ pc' # pc => pc' = "get" /\ waited >= timeout]_vars

C9_Witness ==
    /\ pc = "postwait"
    /\ timeout > 0
    /\ waited >= timeout
    /\ sources = <<>>

\* --------------------------------------------------------------- C10
C10_Quiet == <>[](~busy) /\ [](pc # "fatal")

\* As C10_Quiet, the daemon being allowed to end at the suspend-state write.
C10_QuietUntilWrite == <>[](~busy) /\ [](pc = "fatal" => Called("write"))

\* C10 as stated: once the kernel registers no further wakeup event and
\* reports no busy, and no fatal error occurs, the daemon eventually issues
\* a suspend-state write; and a new get() is always eventually executed.
C10_Original ==
    /\ C10_Quiet => []<>Called("write")
    /\ [](pc # "fatal") => []<>(pc = "query")

\* C10 (amended): under the same conditions the daemon eventually invokes
\* sleep(), and does so again and again while no fatal error occurs; a dry
\* run issues no suspend-state write.  Absent a fatal error a new get() is
\* always eventually executed.
C10_EventuallySuspends ==
    /\ C10_Quiet => []<>Called("sleep_true")
    /\ C10_QuietUntilWrite => <>(Called("sleep_true") \/ Called("write"))
    /\ [](dry_run => ~Called("write"))
    /\ [](pc # "fatal") => []<>(pc = "query")

C10_Witness ==
    /\ dry_run
    /\ Called("sleep_true")
    /\ ~busy
    /\ kcount = MaxCount
    /\ Called("wait")

\* --------------------------------------------------------------- C11
Listed(m) == \E i \in 1..Len(kstates) : kstates[i] = m

\* The mode the selection policy names for the kernel's list and the
\* request; None where it names a fatal error.
C11_Policy ==
    IF IsSome(request)
    THEN IF Listed(Unwrap(request)) THEN request ELSE None
    ELSE IF kstates = <<>> THEN None
    ELSE IF Listed("mem") THEN Some("mem")
    ELSE IF Listed("freeze") THEN Some("freeze")
    ELSE Some(kstates[1])

\* C11: for every list of supported modes and every optional request,
\* construction selects the requested mode if it is listed and is fatal if
\* it is not; with no request it selects "mem" if listed, else "freeze" if
\* listed, else the first listed mode; an empty list is fatal whatever the
\* request.  A selected mode is one of the kernel's list.
C11_ModeSelection ==
    /\ [][pc = "new" /\ pc' # pc /\ trace' # <<"panic_io">> =>
            /\ IsSome(C11_Policy) => /\ pc' = "get"
                                     /\ state' = Unwrap(C11_Policy)
            /\ ~IsSome(C11_Policy) => /\ pc' = "fatal"
                                      /\ trace' = <<"panic_state">>
            /\ kstates = <<>> => pc' = "fatal"]_vars
    /\ [](pc \notin {"new", "fatal"} => Listed(state))
    /\ [][pc # "new" => state' = state]_vars

C11_Witness ==
    /\ pc = "get"
    /\ kstates = <<"standby", "freeze", "mem">>
    /\ state = "mem"

\* --------------------------------------------------------------- C12
\* C12: in normal mode the handle sleep() writes the mode to was opened
\* with write access when the PowerState was constructed, and it is that
\* one handle in every cycle; so a write that the kernel would accept
\* (nothing blocks suspend, no unrelated I/O error) makes sleep() return
\* true.
C12_WritableStateHandle ==
    /\ [](IsSome(state_file) => Unwrap(state_file).write)
    /\ [][pc # "new" => state_file' = state_file]_vars
    /\ [][pc = "sleep" /\ ~dry_run /\ ~busy /\ pc' # pc /\ errno' # "EIO"
            => pc' = "postwait" /\ errno' = "OK"]_vars

\* --------------------------------------------------------------- C13
\* C13 as stated: in a dry run power/state is never opened, neither by the
\* construction of the PowerState nor by any sleep().
C13_Original ==
    dry_run => \A i \in 1..Len(stateIO) : stateIO[i].op # "open"

\* What a dry run does with power/state: nothing if the open fails, else
\* it opens it read-only, reads the list and closes it.
C13_ReadOnce ==
    <<[op |-> "open", file |-> OpenReadOnly], [op |-> "read"],
      [op |-> "close"]>>

\* C13 (amended): in a dry run the construction of the PowerState opens
\* power/state read-only, reads the supported modes and closes it; no
\* handle is kept, and no sleep() opens the file or writes to it.
C13_NoHandleKeptInDryRun ==
    /\ [](dry_run /\ pc # "new" =>
            /\ state_file = None
            /\ stateIO \in {<<>>, C13_ReadOnce}
            /\ stateIO = <<>> => pc = "fatal")
    /\ [][dry_run /\ pc # "new" =>
            stateIO' = stateIO /\ state_file' = state_file]_vars

C13_Witness ==
    /\ dry_run
    /\ pc = "postwait"
    /\ stateIO = C13_ReadOnce
    /\ state_file = None

\* --------------------------------------------------------------- C14
\* C14: in a dry run every sleep() returns true and writes nothing to
\* power/state; so the one-second pause is never taken, and every cycle
\* whose put() returned true goes on to the whole post-resume wait.
C14_DryRunSleep ==
    /\ [][dry_run /\ pc = "sleep" /\ pc' # pc =>
            /\ pc' = "postwait"
            /\ trace' = Append(Append(trace, "sleep_true"), "postwait")
            /\ delay' = timeout /\ waited' = 0
            /\ UNCHANGED <<stateIO, errno>>]_vars
    /\ [](dry_run =>
            /\ pc # "backoff"
            /\ ~Called("write") /\ ~Called("sleep_false") /\ ~Called("backoff")
            /\ \A i \in 1..Len(stateIO) : stateIO[i].op # "write")
    /\ [](dry_run /\ Called("put_true") =>
            pc = "sleep" \/ (Called("sleep_true") /\ Last(trace) = "postwait"))
    /\ [][dry_run /\ pc = "postwait" /\ pc' # pc =>
            pc' = "get" /\ waited >= timeout]_vars

C14_Witness ==
    /\ dry_run
    /\ pc = "postwait"
    /\ Called("put_true") /\ Called("sleep_true")
    /\ timeout > 0 /\ waited >= timeout
    /\ kcount = MaxCount

\* --------------------------------------------------------------- C15
\* C15: put() returns true when its write is accepted, false when it is
\* rejected as stale (EINVAL), false when the kernel is busy (EBUSY), and
\* ends the daemon on any other error, after which nothing is written to
\* power/state; the false results do not end the daemon.
C15_CommitClassification ==
    /\ [][pc = "put" /\ pc' # pc =>
            /\ errno' \in WakeupCountStore(Unwrap(count).count)
            /\ errno' = "OK" => pc' = "sleep" /\ Last(trace') = "put_true"
            /\ errno' \in {"EINVAL", "EBUSY"} =>
                  pc' = "get" /\ Last(trace') = "put_false"
            /\ errno' \notin {"OK", "EINVAL", "EBUSY"} =>
                  pc' = "fatal" /\ Last(trace') = "panic_io"]_vars
    /\ [][pc = "fatal" => pc' = "fatal" /\ stateIO' = stateIO]_vars
    /\ [](Called("put_false") => pc # "fatal")

C15_Witness ==
    /\ pc = "get"
    /\ errno = "EBUSY"
    /\ Last(trace) = "put_false"
    /\ busy

C17_WellFormed ==
    /\ layout.header = <<HEADER>>
    /\ sources # <<>> => layout.columns = 9 /\ layout.suffix = ""

\* Row i is the last one among those with the largest last_change.
C17_LastLatest(i) ==
    /\ \A j \in 1..Len(sources) :
          sources[j].last_change <= sources[i].last_change
    /\ \A j \in (i + 1)..Len(sources) :
          sources[j].last_change < sources[i].last_change

\* C17: on a table with the expected header, most_recent_event returns the
\* row with the largest last_change, the last such row when several share
\* it, with all its columns as the kernel printed them; it returns None
\* exactly when the table has no rows.  (Only a table that cannot be read
\* ends the daemon here.)
C17_MostRecentEvent ==
    [][pc = "query" /\ pc' # pc /\ C17_WellFormed
          /\ Last(trace') # "panic_io" =>
          /\ pc' # "fatal"
          /\ sources = <<>> <=> event' = None
          /\ sources # <<>> =>
                \E i \in 1..Len(sources) :
                    event' = Some(sources[i]) /\ C17_LastLatest(i)]_vars

C17_Witness ==
    /\ pc = "now"
    /\ Len(sources) = 2
    /\ sources[1].last_change = TickMS
    /\ sources[2].last_change = TickMS
    /\ event = Some(sources[2])
    /\ layout.width = 12

\* --------------------------------------------------------------- C18
\* C18: a table without the expected header ends the daemon before any row
\* is parsed, and so does a row with a missing or non-numeric column; the
\* daemon gets past the query only on a table in the expected layout.
C18_MalformedTableFatal ==
    /\ [][pc = "query" /\ pc' # pc /\ layout.header # <<HEADER>> =>
             /\ pc' = "fatal"
             /\ Last(trace') \in {"panic_header", "panic_io"}
             /\ event' = None]_vars
    /\ [][pc = "query" /\ pc' # pc /\ layout.header = <<HEADER>>
             /\ sources # <<>>
             /\ (layout.columns < 9 \/ layout.suffix # "") =>
             /\ pc' = "fatal"
             /\ Last(trace') \in {"panic_row", "panic_io"}
             /\ event' = None]_vars
    /\ [](pc \notin {"new", "get", "query", "fatal"} => C17_WellFormed)

C18_Witness ==
    /\ pc = "fatal"
    /\ Last(trace) = "panic_header"
    /\ layout.header = <<OldHeader>>
    /\ layout.columns = 8
    /\ Len(sources) = 2

\* --------------------------------------------------------------- C19
\* The first non-empty tab-separated field of the line under test.
C19_FirstField == PadRight(sources[1].name, layout.width)

\* C19 as stated: the parsed name is the first non-empty field.
C19_Original ==
    pc = "done" =>
        /\ ~HasPanicked(ws)
        /\ Unwrap(ws.value).name = C19_FirstField

\* C19: a line of a name and nine numbers separated by one or more tabs,
\* with or without the line end, parses to the name without the blanks
\* that follow it in its field and the nine numbers in the order active
\* count, event count, wakeup count, expire count, active since, total
\* time, max time, last change, prevent suspend time.
C19_ParseRow ==
    pc = "done" =>
        /\ ~HasPanicked(ws)
        /\ Unwrap(ws.value) = sources[1]
        /\ Unwrap(ws.value).name = TrimRight(C19_FirstField)
        /\ SourceValues(Unwrap(ws.value)) = SourceValues(sources[1])

C19_Witness ==
    /\ pc = "done"
    /\ layout.width = 12
    /\ layout.lead = 1
    /\ layout.tabs[8] = MaxTabs + 1
    /\ CharAt(line, Len(line)) = "\n"
    /\ ~HasPanicked(ws)
    /\ Unwrap(ws.value).name = "source"
    /\ Unwrap(ws.value).last_change = 500
    /\ Unwrap(ws.value).max_time = 0

\* --------------------------------------------------------------- C20
\* C20: at most one handle on wakeup_count is open at any time, and one is
\* open exactly while a token is held: get opens a fresh read-write handle
\* when none is open, and put releases it whatever its outcome, so every
\* new cycle starts without one.
C20_HandleLifecycle ==
    /\ [](wcOpen \in {0, 1})
    /\ [](wcOpen = 1 <=> IsSome(count))
    /\ [](pc = "get" => wcOpen = 0)
    /\ [][pc = "get" /\ pc' = "query" =>
             /\ wcOpen = 0 /\ wcOpen' = 1
             /\ Unwrap(count').file = OpenReadWrite]_vars
    /\ [][pc = "put" /\ pc' # pc => wcOpen' = 0 /\ count' = NoToken]_vars

C20_Witness ==
    /\ pc = "get"
    /\ wcOpen = 0
    /\ count = NoToken
    /\ Called("put_true")
    /\ Called("sleep_true")
    /\ Last(wcIO).op = "write"

====
